---- MODULE Spec2Model ----
(***************************************************************************)
(* The Q-Chem run tasks of atomate/qchem/firetasks/run_calc.py:            *)
(*   RunQChemDirect     a shell command, run once                          *)
(*   RunQChemCustodian  parameters marshalled into custodian objects       *)
(*   RunQChemFake       verify -> clear -> generate against a reference    *)
(*                      directory                                          *)
(* Each task is a sequential run_task; pc is its position, error the       *)
(* exception it raised.  Strings stand for Python scalars ("True", "5",    *)
(* "0.3", "None"): the tasks only pass them on or test them for equality.  *)
(***************************************************************************)
EXTENDS Integers, Sequences, FiniteSets, TLC

VARIABLES
    task,          \* which firetask this run executes
    pc,            \* position inside run_task
    error,         \* the exception raised, NoError while none
    \* ---- RunQChemDirect
    qchem_cmd,     \* self["qchem_cmd"]
    getcwd,        \* os.getcwd()
    QCSCRATCH,     \* the process environment's QCSCRATCH (os.putenv)
    calls,         \* subprocess.call invocations so far
    log,           \* logger.info records
    \* ---- RunQChemCustodian
    params,        \* the task's own dict: supplied key -> value
    fw_env,        \* fw_spec["_fw_env"]
    locals,        \* run_task's local variables once read
    handler_objs,  \* QChemErrorHandler(...) constructions
    jobs,          \* QCJob(...) / QCJob.opt_with_frequency_flattener(...) calls
    handlers,      \* the handler list selected from handler_groups
    custodians,    \* Custodian(...) constructions
    runs,          \* number of c.run() calls
    \* ---- RunQChemFake
    input_file,    \* self.get("input_file"), "None" when not supplied
    cwd,           \* the working directory: name -> entry
    ref_dir,       \* the reference directory: name -> entry
    cwd0,          \* the working directory as run_task found it
    opened,        \* paths handed to QCInput.from_file, in order
    removed,       \* paths handed to os.remove, in order
    steps,         \* the run_task steps entered, in order
    listing        \* names of os.listdir(ref_dir) not yet visited by the loop

directVars == <<qchem_cmd, getcwd, QCSCRATCH, calls>>
custodianVars == <<params, fw_env, locals, handler_objs, jobs, handlers, custodians, runs>>
fakeVars == <<input_file, cwd, ref_dir, cwd0, opened, removed, steps, listing>>
vars == <<task, pc, error, log, directVars, custodianVars, fakeVars>>

\* ------------------------------------------------------------------ bounds
MaxExitCode == 2
MaxSupplied == 1
MaxKeys == 2
MaxAtoms == 2
MaxShiftSteps == 5

\* ------------------------------------------------------------------ errors
NoError == [type |-> "none", group |-> "", key |-> ""]
Raised(t) == [type |-> t, group |-> "", key |-> ""]
Inconsistent(g, k) == [type |-> "ValueError", group |-> g, key |-> k]

\* ------------------------------------------------------- idle task states
EmptyFn == [k \in {} |-> ""]

DirectIdle ==
    /\ qchem_cmd = "" /\ getcwd = "" /\ QCSCRATCH = "" /\ calls = <<>>

CustodianIdle ==
    /\ params = EmptyFn /\ fw_env = EmptyFn /\ locals = EmptyFn
    /\ handler_objs = <<>> /\ jobs = <<>> /\ handlers = <<>>
    /\ custodians = <<>> /\ runs = 0

FakeIdle ==
    /\ input_file = "None" /\ cwd = EmptyFn /\ ref_dir = EmptyFn /\ cwd0 = EmptyFn
    /\ opened = <<>> /\ removed = <<>> /\ steps = <<>> /\ listing = {}

\* ============================================================ RunQChemDirect
Commands == {"qchem mol.qin mol.qout", "qchem -nt 4 mol.qin mol.qout",
             "qchem -save mol.qin mol.qout scratch", "false"}
Paths == {"/scratch/a", "/scratch/b", "/tmp"}
\* a process exit status, or the negated signal number subprocess.call returns
ExitCodes == (0 .. MaxExitCode) \cup {-9}

InitDirect ==
    /\ task = "RunQChemDirect" /\ pc = "putenv" /\ error = NoError /\ log = <<>>
    /\ qchem_cmd \in Commands
    /\ getcwd \in Paths
    /\ QCSCRATCH \in Paths \cup {"None"}
    /\ calls = <<>>
    /\ CustodianIdle /\ FakeIdle

\* cmd = self.get("qchem_cmd"); os.putenv("QCSCRATCH", os.getcwd())
DirectPutenv ==
    /\ task = "RunQChemDirect" /\ pc = "putenv"
    /\ QCSCRATCH' = getcwd
    /\ pc' = "log_running"
    /\ UNCHANGED <<task, error, log, qchem_cmd, getcwd, calls, custodianVars, fakeVars>>

\* logger.info(f"Running command: {cmd}")
DirectLogRunning ==
    /\ task = "RunQChemDirect" /\ pc = "log_running"
    /\ log' = Append(log, [msg |-> "Running command", cmd |-> qchem_cmd, code |-> 0])
    /\ pc' = "call"
    /\ UNCHANGED <<task, error, directVars, custodianVars, fakeVars>>

\* the same step had the code checked the exit status (subprocess.check_call)
DirectCallChecked(return_code) ==
    /\ task = "RunQChemDirect" /\ pc = "call"
    /\ calls' = Append(calls, [cmd |-> qchem_cmd, env |-> QCSCRATCH, code |-> return_code])
    /\ IF return_code = 0
          THEN pc' = "log_finished" /\ error' = error
          ELSE pc' = "raised" /\ error' = Raised("CalledProcessError")
    /\ UNCHANGED <<task, log, qchem_cmd, getcwd, QCSCRATCH, custodianVars, fakeVars>>

\* return_code = subprocess.call(cmd, shell=True)
DirectCall(return_code) ==
    /\ task = "RunQChemDirect" /\ pc = "call"
    /\ calls' = Append(calls, [cmd |-> qchem_cmd, env |-> QCSCRATCH, code |-> return_code])
    /\ pc' = "log_finished"
    /\ UNCHANGED <<task, error, log, qchem_cmd, getcwd, QCSCRATCH, custodianVars, fakeVars>>

\* logger.info(f"Command {cmd} finished running with return code: {return_code}")
DirectLogFinished ==
    /\ task = "RunQChemDirect" /\ pc = "log_finished"
    /\ log' = Append(log, [msg |-> "finished running with return code",
                           cmd |-> qchem_cmd, code |-> calls[Len(calls)].code])
    /\ pc' = "done"
    /\ UNCHANGED <<task, error, directVars, custodianVars, fakeVars>>

NextDirect ==
    \/ DirectPutenv
    \/ DirectLogRunning
    \/ \E return_code \in ExitCodes : DirectCall(return_code)
    \/ DirectLogFinished

SpecDirect == InitDirect /\ [][NextDirect]_vars

\* C8: RunQChemDirect invokes the command exactly once, with QCSCRATCH already
\* set to the current directory, and for every exit code it logs that code and
\* returns normally: it never raises, never calls a second time, and every
\* position before the return has a next step.
C8_DirectRunsOnceAndNeverRaises ==
    task = "RunQChemDirect" =>
        /\ error = NoError /\ pc # "raised"
        /\ Len(calls) <= 1
        /\ pc \in {"putenv", "log_running", "call"} => calls = <<>>
        /\ pc \in {"log_finished", "done"} =>
              /\ Len(calls) = 1
              /\ calls[1].cmd = qchem_cmd
              /\ calls[1].env = getcwd
        /\ pc = "done" =>
              /\ Len(log) = 2
              /\ log[2].msg = "finished running with return code"
              /\ log[2].code = calls[1].code
        /\ pc # "done" => ENABLED NextDirect

C8_Witness ==
    /\ task = "RunQChemDirect" /\ pc = "done"
    /\ Len(calls) = 1 /\ calls[1].code # 0
    /\ calls[1].env = getcwd
    /\ log[2].code = calls[1].code

\* ========================================================= RunQChemCustodian
\* required_params + optional_params
RequiredKeys == {"qchem_cmd"}
OptionalKeys ==
    {"multimode", "input_file", "output_file", "max_cores", "qclog_file", "suffix",
     "calc_loc", "nboexe", "save_scratch", "max_errors", "job_type", "handler_group",
     "gzipped_output", "backup", "linked", "max_iterations",
     "max_molecule_perturb_scale", "freq_before_opt", "transition_state"}

\* the values a configuration record may give a key
ValuesOf(k) ==
    CASE k = "qchem_cmd" -> {"qchem", ">>qchem_cmd<<"}
      [] k = "multimode" -> {"mpi", ">>multimode<<"}
      [] k = "input_file" -> {"test.qin"}
      [] k = "output_file" -> {"test.qout"}
      [] k = "max_cores" -> {"32", ">>max_cores<<"}
      [] k = "qclog_file" -> {"test.qclog"}
      [] k = "suffix" -> {".opt_0"}
      [] k = "calc_loc" -> {"/tmp/qchem_scratch"}
      [] k = "nboexe" -> {"/opt/nbo7/nbo7.i8.exe"}
      [] k = "save_scratch" -> {"True"}
      [] k = "max_errors" -> {"137"}
      [] k = "job_type" -> {"normal", "opt_with_frequency_flattener", "freq"}
      [] k = "handler_group" -> {"default", "no_handler", "my_handlers"}
      [] k = "gzipped_output" -> {"False"}
      [] k = "backup" -> {"False"}
      [] k = "linked" -> {"True", "False"}
      [] k = "max_iterations" -> {"1029"}
      [] k = "max_molecule_perturb_scale" -> {"0.5"}
      [] k = "freq_before_opt" -> {"True"}
      [] k = "transition_state" -> {"True"}

\* fw_spec["_fw_env"] as the worker's configuration gives it
FwEnvs ==
    { EmptyFn,
      [k \in {"qchem_cmd", "multimode", "max_cores", "calc_loc", "nboexe"} |->
          CASE k = "qchem_cmd" -> "/env/bin/qchem"
            [] k = "multimode" -> "openmp"
            [] k = "max_cores" -> "64"
            [] k = "calc_loc" -> "/env/scratch"
            [] k = "nboexe" -> "/env/nbo7"] }

SmallSubsets(S, n) ==
    LET grow[i \in 0 .. n] ==
            IF i = 0 THEN {{}}
            ELSE grow[i - 1] \cup {T \cup {x} : T \in grow[i - 1], x \in S}
    IN grow[n]

\* records giving qchem_cmd, any of max_cores, job_type and linked, and at most
\* MaxSupplied of the other optional keys
ParamRecords ==
    LET free == {"max_cores", "job_type", "linked"}
        other == OptionalKeys \ free
        pairs == {<<k, v>> : k \in other, v \in UNION {ValuesOf(k) : k \in other}}
        legal == {p \in pairs : p[2] \in ValuesOf(p[1])}
        picks == {P \in SmallSubsets(legal, MaxSupplied) :
                     \A p, q \in P : p[1] = q[1] => p = q}
        Maybe(k) == {{}} \cup {{<<k, v>>} : v \in ValuesOf(k)}
        cmds == {{<<"qchem_cmd", v>>} : v \in ValuesOf("qchem_cmd")}
    IN { [k \in {p[1] : p \in P \cup C \cup J \cup L \cup Q} |->
             (CHOOSE p \in P \cup C \cup J \cup L \cup Q : p[1] = k)[2]] :
         P \in picks, C \in Maybe("max_cores"), J \in Maybe("job_type"),
         L \in Maybe("linked"), Q \in cmds }

\* dict.get(key, default) on the task
Get(key, default) == IF key \in DOMAIN params THEN params[key] ELSE default

\* atomate.utils.utils.env_chk: ">>name<<" is looked up in fw_spec["_fw_env"]
IsEnvRef(val) == val \in {">>qchem_cmd<<", ">>multimode<<", ">>max_cores<<",
                          ">>calc_loc<<", ">>nboexe<<"}
EnvName(val) ==
    CASE val = ">>qchem_cmd<<" -> "qchem_cmd"
      [] val = ">>multimode<<" -> "multimode"
      [] val = ">>max_cores<<" -> "max_cores"
      [] val = ">>calc_loc<<" -> "calc_loc"
      [] val = ">>nboexe<<" -> "nboexe"
\* does env_chk(val, fw_spec) raise KeyError (strict lookup of a missing name)
EnvChkRaises(val) == IsEnvRef(val) /\ EnvName(val) \notin DOMAIN fw_env
env_chk(val) ==
    IF val = "None" THEN "None"
    ELSE IF IsEnvRef(val) THEN fw_env[EnvName(val)]
    ELSE val
\* env_chk(val, fw_spec, strict=False)
env_chk_lenient(val) ==
    IF IsEnvRef(val)
       THEN (IF EnvName(val) \in DOMAIN fw_env THEN fw_env[EnvName(val)] ELSE "None")
       ELSE val

InitCustodian ==
    /\ task = "RunQChemCustodian" /\ pc = "initialize" /\ error = NoError /\ log = <<>>
    /\ params \in ParamRecords
    /\ fw_env \in FwEnvs
    /\ locals = EmptyFn
    /\ handler_objs = <<>> /\ jobs = <<>> /\ handlers = <<>>
    /\ custodians = <<>> /\ runs = 0
    /\ DirectIdle /\ FakeIdle

\* the first exception lines 119-144 raise, NoError when they raise none
InitializeError ==
    IF EnvChkRaises(params["qchem_cmd"])
       THEN [type |-> "KeyError", group |-> "_fw_env", key |-> "qchem_cmd"]
    ELSE IF EnvChkRaises(Get("multimode", "None"))
       THEN [type |-> "KeyError", group |-> "_fw_env", key |-> "multimode"]
    ELSE IF "max_cores" \notin DOMAIN params
       THEN [type |-> "KeyError", group |-> "self", key |-> "max_cores"]
    ELSE IF EnvChkRaises(params["max_cores"])
       THEN [type |-> "KeyError", group |-> "_fw_env", key |-> "max_cores"]
    ELSE NoError

\* the local variables of lines 119-144
InitializedLocals ==
    [qchem_cmd |-> env_chk(params["qchem_cmd"]),
     multimode |-> (IF env_chk(Get("multimode", "None")) = "None"
                       THEN "openmp" ELSE env_chk(Get("multimode", "None"))),
     input_file |-> Get("input_file", "mol.qin"),
     output_file |-> Get("output_file", "mol.qout"),
     max_cores |-> env_chk(params["max_cores"]),
     qclog_file |-> Get("qclog_file", "mol.qclog"),
     suffix |-> Get("suffix", ""),
     calc_loc |-> Get("calc_loc", env_chk_lenient(">>calc_loc<<")),
     nboexe |-> Get("nboexe", env_chk_lenient(">>nboexe<<")),
     save_scratch |-> Get("save_scratch", "False"),
     max_errors |-> Get("max_errors", "5"),
     max_iterations |-> Get("max_iterations", "10"),
     linked |-> Get("linked", "True"),
     backup |-> Get("backup", "True"),
     max_molecule_perturb_scale |-> Get("max_molecule_perturb_scale", "0.3"),
     job_type |-> Get("job_type", "normal"),
     gzipped_output |-> Get("gzipped_output", "True"),
     transition_state |-> Get("transition_state", "False"),
     freq_before_opt |-> Get("freq_before_opt", "False")]

\* lines 119-144: initialize variables
CustodianInitialize ==
    /\ task = "RunQChemCustodian" /\ pc = "initialize"
    /\ IF InitializeError # NoError
          THEN /\ pc' = "raised" /\ error' = InitializeError
               /\ locals' = locals
          ELSE /\ pc' = "handler_groups" /\ error' = error
               /\ locals' = InitializedLocals
    /\ UNCHANGED <<task, log, directVars, params, fw_env, handler_objs, jobs, handlers,
                   custodians, runs, fakeVars>>

\* lines 146-151: the handler_groups dict, whose "default" entry constructs
\* QChemErrorHandler(input_file=input_file, output_file=output_file)
CustodianHandlerGroups ==
    /\ task = "RunQChemCustodian" /\ pc = "handler_groups"
    /\ handler_objs' = Append(handler_objs, [input_file |-> locals.input_file,
                                             output_file |-> locals.output_file])
    /\ pc' = "construct_jobs"
    /\ UNCHANGED <<task, error, log, directVars, params, fw_env, locals, jobs, handlers,
                   custodians, runs, fakeVars>>

\* lines 154-169: QCJob(...)
NormalJob ==
    [fn |-> "QCJob",
     kw |-> [qchem_command |-> locals.qchem_cmd,
             max_cores |-> locals.max_cores,
             multimode |-> locals.multimode,
             input_file |-> locals.input_file,
             output_file |-> locals.output_file,
             qclog_file |-> locals.qclog_file,
             suffix |-> locals.suffix,
             calc_loc |-> locals.calc_loc,
             nboexe |-> locals.nboexe,
             save_scratch |-> locals.save_scratch,
             backup |-> locals.backup]]

\* lines 172-186: QCJob.opt_with_frequency_flattener(...), linked true
LinkedFlattener ==
    [fn |-> "QCJob.opt_with_frequency_flattener",
     kw |-> [qchem_command |-> locals.qchem_cmd,
             multimode |-> locals.multimode,
             input_file |-> locals.input_file,
             output_file |-> locals.output_file,
             qclog_file |-> locals.qclog_file,
             max_iterations |-> locals.max_iterations,
             linked |-> locals.linked,
             freq_before_opt |-> locals.freq_before_opt,
             transition_state |-> locals.transition_state,
             save_final_scratch |-> locals.save_scratch,
             max_cores |-> locals.max_cores,
             calc_loc |-> locals.calc_loc,
             nboexe |-> locals.nboexe]]

\* the unlinked call written like the linked one, without the perturbation scale
UnlinkedFlattenerWithoutScale == LinkedFlattener

\* lines 188-203: QCJob.opt_with_frequency_flattener(...), linked false
UnlinkedFlattener ==
    [fn |-> "QCJob.opt_with_frequency_flattener",
     kw |-> [qchem_command |-> locals.qchem_cmd,
             multimode |-> locals.multimode,
             input_file |-> locals.input_file,
             output_file |-> locals.output_file,
             qclog_file |-> locals.qclog_file,
             max_iterations |-> locals.max_iterations,
             max_molecule_perturb_scale |-> locals.max_molecule_perturb_scale,
             linked |-> locals.linked,
             freq_before_opt |-> locals.freq_before_opt,
             transition_state |-> locals.transition_state,
             save_final_scratch |-> locals.save_scratch,
             max_cores |-> locals.max_cores,
             calc_loc |-> locals.calc_loc,
             nboexe |-> locals.nboexe]]

\* lines 154-206: construct jobs
CustodianConstructJobs ==
    /\ task = "RunQChemCustodian" /\ pc = "construct_jobs"
    /\ IF locals.job_type = "normal"
          THEN jobs' = <<NormalJob>> /\ pc' = "construct_handlers" /\ error' = error
       ELSE IF locals.job_type = "opt_with_frequency_flattener"
          THEN /\ jobs' = IF locals.linked = "True" THEN <<LinkedFlattener>>
                                                    ELSE <<UnlinkedFlattener>>
               /\ pc' = "construct_handlers" /\ error' = error
       ELSE /\ jobs' = jobs /\ pc' = "raised"
            /\ error' = [type |-> "ValueError", group |-> "Unsupported job type",
                         key |-> locals.job_type]
    /\ UNCHANGED <<task, log, directVars, params, fw_env, locals, handler_objs, handlers,
                   custodians, runs, fakeVars>>

\* line 209: handlers = handler_groups[self.get("handler_group", "default")]
CustodianConstructHandlers ==
    /\ task = "RunQChemCustodian" /\ pc = "construct_handlers"
    /\ LET group == Get("handler_group", "default") IN
         IF group = "default"
            THEN handlers' = <<"QChemErrorHandler">> /\ pc' = "custodian" /\ error' = error
         ELSE IF group = "no_handler"
            THEN handlers' = <<>> /\ pc' = "custodian" /\ error' = error
         ELSE /\ handlers' = handlers /\ pc' = "raised"
              /\ error' = [type |-> "KeyError", group |-> "handler_groups", key |-> group]
    /\ UNCHANGED <<task, log, directVars, params, fw_env, locals, handler_objs, jobs,
                   custodians, runs, fakeVars>>

\* lines 211-213: c = Custodian(handlers, jobs, max_errors=..., gzipped_output=...)
CustodianConstruct ==
    /\ task = "RunQChemCustodian" /\ pc = "custodian"
    /\ custodians' = Append(custodians, [handlers |-> handlers, jobs |-> jobs,
                                         max_errors |-> locals.max_errors,
                                         gzipped_output |-> locals.gzipped_output])
    /\ pc' = "run"
    /\ UNCHANGED <<task, error, log, directVars, params, fw_env, locals, handler_objs, jobs,
                   handlers, runs, fakeVars>>

\* line 215: c.run(); whatever the orchestrator raises propagates unchanged
CustodianRun(raises) ==
    /\ task = "RunQChemCustodian" /\ pc = "run"
    /\ runs' = runs + 1
    /\ IF raises THEN pc' = "raised" /\ error' = Raised("CustodianError")
                 ELSE pc' = "done" /\ error' = error
    /\ UNCHANGED <<task, log, directVars, params, fw_env, locals, handler_objs, jobs,
                   handlers, custodians, fakeVars>>

NextCustodian ==
    \/ CustodianInitialize
    \/ CustodianHandlerGroups
    \/ CustodianConstructJobs
    \/ CustodianConstructHandlers
    \/ CustodianConstruct
    \/ \E raises \in BOOLEAN : CustodianRun(raises)

SpecCustodian == InitCustodian /\ [][NextCustodian]_vars

\* C3: a RunQChemCustodian record whose job_type is neither "normal" nor
\* "opt_with_frequency_flattener" never completes; when run_task raises, the
\* error is the unsupported-job-type ValueError and nothing external has been
\* constructed or run: no error handler, no job, no Custodian, no c.run().
C3_UnsupportedJobTypeRaisesBeforeAnyExternalCall ==
    (/\ task = "RunQChemCustodian"
     /\ Get("job_type", "normal") \notin {"normal", "opt_with_frequency_flattener"}) =>
        /\ pc # "done"
        /\ pc = "raised" =>
              /\ error.type = "ValueError"
              /\ error.group = "Unsupported job type"
              /\ handler_objs = <<>> /\ jobs = <<>> /\ custodians = <<>> /\ runs = 0

\* the defaults the class docstring (and section 8 of the specification) gives
DocumentedKeys ==
    {"multimode", "input_file", "output_file", "qclog_file", "max_cores", "save_scratch",
     "max_errors", "job_type", "gzipped_output", "backup", "linked", "max_iterations",
     "max_molecule_perturb_scale"}
DocumentedDefault(k) ==
    CASE k = "multimode" -> "openmp"
      [] k = "input_file" -> "mol.qin"
      [] k = "output_file" -> "mol.qout"
      [] k = "qclog_file" -> "None"
      [] k = "max_cores" -> "None"
      [] k = "save_scratch" -> "False"
      [] k = "max_errors" -> "5"
      [] k = "job_type" -> "normal"
      [] k = "gzipped_output" -> "True"
      [] k = "backup" -> "True"
      [] k = "linked" -> "True"
      [] k = "max_iterations" -> "10"
      [] k = "max_molecule_perturb_scale" -> "0.3"

\* C4: a record that supplies qchem_cmd never fails for want of an optional key,
\* and every omitted optional key has its documented default in the values the
\* job and the Custodian are built from (handler_group: the default group).
C4_OmittedOptionalKeysGetDocumentedDefaults ==
    task = "RunQChemCustodian" =>
        /\ ~(/\ pc = "raised" /\ error.type = "KeyError" /\ error.group = "self"
             /\ error.key \in OptionalKeys \ DOMAIN params)
        /\ locals # EmptyFn =>
              \A k \in DocumentedKeys \ DOMAIN params : locals[k] = DocumentedDefault(k)
        /\ \A i \in DOMAIN jobs :
              \A k \in (DOMAIN jobs[i].kw \cap DocumentedKeys) \ DOMAIN params :
                  jobs[i].kw[k] = DocumentedDefault(k)
        /\ \A i \in DOMAIN custodians :
              /\ "max_errors" \notin DOMAIN params =>
                    custodians[i].max_errors = DocumentedDefault("max_errors")
              /\ "gzipped_output" \notin DOMAIN params =>
                    custodians[i].gzipped_output = DocumentedDefault("gzipped_output")
              /\ "handler_group" \notin DOMAIN params =>
                    custodians[i].handlers = <<"QChemErrorHandler">>

\* C9 (as claimed): for job_type "opt_with_frequency_flattener", linked or not,
\* the builder call carries both the configured-or-default max_iterations and
\* the configured-or-default max_molecule_perturb_scale; for "normal" exactly
\* one plain QCJob is built.
C9_FlattenerGetsBothLimits ==
    (task = "RunQChemCustodian" /\ jobs # <<>>) =>
        /\ Len(jobs) = 1
        /\ Get("job_type", "normal") = "normal" => jobs[1].fn = "QCJob"
        /\ Get("job_type", "normal") = "opt_with_frequency_flattener" =>
              /\ jobs[1].fn = "QCJob.opt_with_frequency_flattener"
              /\ jobs[1].kw.linked = Get("linked", "True")
              /\ "max_iterations" \in DOMAIN jobs[1].kw
              /\ jobs[1].kw.max_iterations = Get("max_iterations", "10")
              /\ "max_molecule_perturb_scale" \in DOMAIN jobs[1].kw
              /\ jobs[1].kw.max_molecule_perturb_scale =
                     Get("max_molecule_perturb_scale", "0.3")

\* C9 (amended): whenever the job sequence is built, "normal" gives exactly one
\* plain QCJob; "opt_with_frequency_flattener" gives one builder call that
\* carries the configured-or-default max_iterations for both values of linked,
\* and the configured-or-default max_molecule_perturb_scale only when linked is
\* false: with linked true that argument is not passed at all.
C9_FlattenerGetsScaleOnlyWhenUnlinked ==
    (task = "RunQChemCustodian" /\ jobs # <<>>) =>
        /\ Len(jobs) = 1
        /\ Get("job_type", "normal") = "normal" => jobs[1].fn = "QCJob"
        /\ Get("job_type", "normal") = "opt_with_frequency_flattener" =>
              /\ jobs[1].fn = "QCJob.opt_with_frequency_flattener"
              /\ jobs[1].kw.linked = Get("linked", "True")
              /\ "max_iterations" \in DOMAIN jobs[1].kw
              /\ jobs[1].kw.max_iterations = Get("max_iterations", "10")
              /\ IF Get("linked", "True") = "True"
                    THEN "max_molecule_perturb_scale" \notin DOMAIN jobs[1].kw
                    ELSE /\ "max_molecule_perturb_scale" \in DOMAIN jobs[1].kw
                         /\ jobs[1].kw.max_molecule_perturb_scale =
                                Get("max_molecule_perturb_scale", "0.3")

C9_Witness ==
    /\ task = "RunQChemCustodian" /\ Len(jobs) = 1
    /\ Get("job_type", "normal") = "opt_with_frequency_flattener"
    /\ Get("linked", "True") = "False"
    /\ "max_molecule_perturb_scale" \in DOMAIN params
    /\ jobs[1].kw.max_molecule_perturb_scale = params["max_molecule_perturb_scale"]
    /\ jobs[1].kw.max_iterations = "10"

\* ============================================================== RunQChemFake
\* ---- directory entries
Absent == [kind |-> "absent"]
RegularFile(content) == [kind |-> "file", content |-> content]
\* a subdirectory and the regular files inside it
Directory(inner) == [kind |-> "dir", inner |-> inner]
Data(text) == [fmt |-> "data", text |-> text]

Names == {"mol.qin", "alt.qin", "mol.qout", "scratch"}

\* ---- QCInput: what QCInput.from_file yields.  Coordinates are integers in
\* units of 1e-5 Angstrom; a dict is the sequence of its <<key, value>> items in
\* iteration order; opt, pcm and solvent may be None.
None == [isNone |-> TRUE, items |-> <<>>]
Dict(items) == [isNone |-> FALSE, items |-> items]
QCInput(species, cart_coords, rem, opt, pcm, solvent) ==
    [fmt |-> "qcinput", species |-> species, cart_coords |-> cart_coords,
     rem |-> rem, opt |-> opt, pcm |-> pcm, solvent |-> solvent]

\* dict.get(key): the value, or "None"
DictGet(items, key) ==
    IF \E i \in DOMAIN items : items[i][1] = key
       THEN items[CHOOSE i \in DOMAIN items : items[i][1] = key][2]
       ELSE "None"

Abs(x) == IF x < 0 THEN -x ELSE x

\* atol=0.0001 in units of 1e-5 Angstrom
Atol == 10
\* 1 / rtol for numpy.testing.assert_allclose's default rtol=1e-07
RtolInverse == 10000000

\* a comparison with the absolute tolerance alone
IsCloseAbsolute(actual, desired) == Abs(actual - desired) <= Atol

\* assert_allclose's test of one component: |actual - desired| <= atol + rtol * |desired|
IsClose(actual, desired) ==
    Abs(actual - desired) * RtolInverse <= Atol * RtolInverse + Abs(desired)

\* np.testing.assert_allclose(ref.cart_coords, user.cart_coords, atol=0.0001) passes
AllClose(actual, desired) ==
    /\ Len(actual) = Len(desired)
    /\ \A i \in DOMAIN actual : \A j \in 1 .. 3 : IsClose(actual[i][j], desired[i][j])

\* the index of the first key of ref whose value in user differs, 0 when none
FirstInconsistent(ref_items, user_items) ==
    LET bad == {i \in DOMAIN ref_items :
                   DictGet(user_items, ref_items[i][1]) # ref_items[i][2]}
    IN IF bad = {} THEN 0 ELSE CHOOSE i \in bad : \A j \in bad : i <= j

\* one "for key in ref_qin.<group>" loop with its None guard
GroupError(name, ref_group, user_group) ==
    IF ref_group.isNone \/ ref_group.items = <<>> THEN NoError
    ELSE IF user_group.isNone
       THEN [type |-> "AttributeError", group |-> name, key |-> "get"]
    ELSE LET i == FirstInconsistent(ref_group.items, user_group.items)
         IN IF i = 0 THEN NoError ELSE Inconsistent(name, ref_group.items[i][1])

\* lines 254-272: the first failure of the comparison, NoError when it passes
VerifyError(ref_qin, user_qin) ==
    IF ref_qin.species # user_qin.species
       THEN [type |-> "AssertionError", group |-> "species", key |-> ""]
    ELSE IF ~AllClose(ref_qin.cart_coords, user_qin.cart_coords)
       THEN [type |-> "AssertionError", group |-> "cart_coords", key |-> ""]
    ELSE IF GroupError("Rem", ref_qin.rem, user_qin.rem) # NoError
       THEN GroupError("Rem", ref_qin.rem, user_qin.rem)
    ELSE IF GroupError("Opt", ref_qin.opt, user_qin.opt) # NoError
       THEN GroupError("Opt", ref_qin.opt, user_qin.opt)
    ELSE IF GroupError("PCM", ref_qin.pcm, user_qin.pcm) # NoError
       THEN GroupError("PCM", ref_qin.pcm, user_qin.pcm)
    ELSE GroupError("Solvent", ref_qin.solvent, user_qin.solvent)

\* QCInput.from_file(path): the exception opening or parsing raises, else NoError
FromFileError(dir, name) ==
    IF dir[name].kind = "absent" THEN Raised("FileNotFoundError")
    ELSE IF dir[name].kind = "dir" THEN Raised("IsADirectoryError")
    ELSE IF dir[name].content.fmt # "qcinput" THEN Raised("ParseError")
    ELSE NoError

\* input_file = self.get("input_file", "mol.qin")
RefInputName == IF input_file = "None" THEN "mol.qin" ELSE input_file
\* the name _verify_inputs reads in the working directory
UserInputName == "mol.qin"
\* the name _clear_inputs removes
ClearedName == "mol.qin"

\* os.path.exists / os.path.isfile of a directory entry
Exists(entry) == entry.kind # "absent"
IsFileOrDir(entry) == entry.kind \in {"file", "dir"}
IsFile(entry) == entry.kind = "file"

\* ---- the inputs of a run
KeyNames == <<"basis", "method", "scf_algorithm", "max_scf_cycles">>
Keys == {KeyNames[i] : i \in 1 .. MaxKeys}
Vals == {"tight", "loose"}
\* the dicts over Keys, in every iteration order
Dicts ==
    LET items == Keys \X Vals
        seqs == UNION {[1 .. n -> items] : n \in 0 .. MaxKeys}
    IN {d \in seqs : \A i, j \in DOMAIN d : d[i][1] = d[j][1] => i = j}
Groups == {None} \cup {Dict(d) : d \in Dicts}

\* n atoms, 1.1 Angstrom apart along z, the first at x = origin
Species(n) == [i \in 1 .. n |-> IF i = 1 THEN "O" ELSE "H"]
Coords(n, origin) == [i \in 1 .. n |-> <<origin, 0, (i - 1) * 110000>>]
\* the first atom at the origin, or 200 Angstrom away from it
Origins == {0, 20000000}
\* displacements of one coordinate, in steps of 3e-5 Angstrom
Shifts == {3 * k : k \in (-MaxShiftSteps) .. MaxShiftSteps}

StdRem == Dict(<<<<KeyNames[1], "tight">>>>)
StdInput(n, origin) == QCInput(Species(n), Coords(n, origin), StdRem, None, None, None)

\* reference and working inputs that differ in the molecule alone
MoleculePairs ==
    UNION {
      LET ref == StdInput(n, origin) IN
        {<<ref, StdInput(m, origin)>> : m \in 1 .. MaxAtoms}
        \cup {<<ref, [ref EXCEPT !.species[i] = IF @ = "O" THEN "H" ELSE "O"]>> :
                 i \in 1 .. n}
        \cup {<<ref, [ref EXCEPT !.cart_coords[c[1]][c[2]] = @ + c[3]]>> :
                 c \in (1 .. n) \X (1 .. 3) \X Shifts}
      : n \in 1 .. MaxAtoms, origin \in Origins }

\* reference and working inputs that differ in one option group alone
GroupFields == {"rem", "opt", "pcm", "solvent"}
OneGroupPair(field, ref_group, user_group) ==
    LET std == StdInput(MaxAtoms, 0)
    IN <<[std EXCEPT ![field] = ref_group], [std EXCEPT ![field] = user_group]>>

\* reference and working inputs whose groups each hold one key or are None
SeveralGroupPairs ==
    LET tight == Dict(<<<<KeyNames[1], "tight">>>>)
        loose == Dict(<<<<KeyNames[1], "loose">>>>)
        refs == {QCInput(Species(1), Coords(1, 0), tight, g[1], g[2], g[3]) :
                    g \in {None, tight} \X {None, tight} \X {None, tight}}
        users == {QCInput(Species(1), Coords(1, 0), g[1], g[2], g[3], g[4]) :
                    g \in {tight, loose} \X {None, tight, loose} \X {None, tight, loose}
                          \X {None, tight, loose}}
    IN refs \X users

OnlyFiles(files) == [n \in Names |-> IF n \in DOMAIN files THEN files[n] ELSE Absent]

\* the layout of the class docstring: mol.qin and mol.qout in the reference
\* directory, mol.qin in the working directory, input_file not supplied
DocumentedSetup(ref_qin, user_qin) ==
    [input_file |-> "None",
     cwd |-> OnlyFiles([n \in {"mol.qin"} |-> RegularFile(user_qin)]),
     ref_dir |-> OnlyFiles([n \in {"mol.qin", "mol.qout"} |->
                    IF n = "mol.qin" THEN RegularFile(ref_qin)
                                     ELSE RegularFile(Data("reference output"))])]

\* other directory layouts and input_file values, for two inputs that either
\* agree or differ in a rem key
LayoutEntries(e) ==
    [n \in Names |-> CASE n = "mol.qin" -> e[1] [] n = "alt.qin" -> e[2]
                       [] n = "mol.qout" -> e[3] [] n = "scratch" -> e[4]]
ScratchFiles == [n \in {"mol.qout"} |-> Data("scratch output")]
RefLayouts ==
    LET std == StdInput(MaxAtoms, 0)
        other == [std EXCEPT !.rem = Dict(<<<<KeyNames[1], "loose">>>>)]
    IN {LayoutEntries(e) :
          e \in {Absent, RegularFile(std)}
                \X {Absent, RegularFile(std), RegularFile(other)}
                \X {Absent, RegularFile(Data("reference output")), Directory(ScratchFiles)}
                \X {Absent, Directory(ScratchFiles)}}
CwdLayouts ==
    LET std == StdInput(MaxAtoms, 0)
        other == [std EXCEPT !.rem = Dict(<<<<KeyNames[1], "loose">>>>)]
    IN {LayoutEntries(e) :
          e \in {Absent, RegularFile(std), RegularFile(other)}
                \X {Absent, RegularFile(std)}
                \X {Absent, RegularFile(Data("old output")), Directory(ScratchFiles)}
                \X {Absent, RegularFile(Data("old scratch"))}}

\* the run starts from this setup
StartFrom(setup) ==
    /\ input_file = setup.input_file
    /\ cwd = setup.cwd
    /\ ref_dir = setup.ref_dir

InitFake ==
    /\ task = "RunQChemFake" /\ pc = "verify" /\ error = NoError /\ log = <<>>
    /\ \/ \E p \in MoleculePairs \cup SeveralGroupPairs :
             StartFrom(DocumentedSetup(p[1], p[2]))
       \/ \E field \in GroupFields, ref_group \in Groups, user_group \in Groups :
             /\ field = "rem" => (~ref_group.isNone /\ ~user_group.isNone)
             /\ StartFrom(DocumentedSetup(OneGroupPair(field, ref_group, user_group)[1],
                                          OneGroupPair(field, ref_group, user_group)[2]))
       \/ \E f \in {"None", "mol.qin", "alt.qin"}, c \in CwdLayouts, r \in RefLayouts :
             StartFrom([input_file |-> f, cwd |-> c, ref_dir |-> r])
    /\ cwd0 = cwd
    /\ opened = <<>> /\ removed = <<>> /\ steps = <<>> /\ listing = {}
    /\ DirectIdle /\ CustodianIdle

\* ---- run_task
Info(msg) == [msg |-> msg, cmd |-> "", code |-> 0]
Path(dir, name) == [dir |-> dir, name |-> name]

\* what _verify_inputs raises, NoError when it returns
VerifyInputsError ==
    IF FromFileError(cwd, UserInputName) # NoError
       THEN FromFileError(cwd, UserInputName)
    ELSE IF FromFileError(ref_dir, RefInputName) # NoError
       THEN FromFileError(ref_dir, RefInputName)
    ELSE VerifyError(ref_dir[RefInputName].content, cwd[UserInputName].content)

\* a verification that removes the working input before it compares
FakeVerifyClearsFirst ==
    /\ task = "RunQChemFake" /\ pc = "verify"
    /\ steps' = Append(steps, "_verify_inputs")
    /\ opened' = <<Path("cwd", UserInputName)>>
    /\ cwd' = [cwd EXCEPT ![UserInputName] = Absent]
    /\ removed' = Append(removed, Path("cwd", UserInputName))
    /\ IF VerifyInputsError = NoError
          THEN pc' = "listdir" /\ error' = error
          ELSE pc' = "raised" /\ error' = VerifyInputsError
    /\ UNCHANGED <<task, log, directVars, custodianVars, input_file, ref_dir, cwd0, listing>>

\* lines 247-274: _verify_inputs
FakeVerify ==
    /\ task = "RunQChemFake" /\ pc = "verify"
    /\ steps' = Append(steps, "_verify_inputs")
    /\ opened' = IF FromFileError(cwd, UserInputName) # NoError
                    THEN <<Path("cwd", UserInputName)>>
                    ELSE <<Path("cwd", UserInputName), Path("ref_dir", RefInputName)>>
    /\ IF VerifyInputsError = NoError
          THEN /\ pc' = "clear" /\ error' = error
               /\ log' = Append(log, Info("RunQChemFake: verified input successfully"))
          ELSE /\ pc' = "raised" /\ error' = VerifyInputsError
               /\ log' = log
    /\ UNCHANGED <<task, directVars, custodianVars, input_file, cwd, ref_dir, cwd0, removed,
                   listing>>

\* a clear step that leaves the working input in place
FakeClearKeepsInput ==
    /\ task = "RunQChemFake" /\ pc = "clear"
    /\ steps' = Append(steps, "_clear_inputs")
    /\ pc' = "listdir"
    /\ UNCHANGED <<task, error, log, directVars, custodianVars, input_file, cwd, ref_dir,
                   cwd0, opened, removed, listing>>

\* lines 276-280: _clear_inputs
FakeClear ==
    /\ task = "RunQChemFake" /\ pc = "clear"
    /\ steps' = Append(steps, "_clear_inputs")
    /\ IF ~Exists(cwd[ClearedName])
          THEN pc' = "listdir" /\ UNCHANGED <<cwd, removed, error>>
       ELSE IF cwd[ClearedName].kind = "dir"
          THEN /\ pc' = "raised" /\ error' = Raised("IsADirectoryError")
               /\ removed' = Append(removed, Path("cwd", ClearedName))
               /\ cwd' = cwd
       ELSE /\ pc' = "listdir" /\ error' = error
            /\ removed' = Append(removed, Path("cwd", ClearedName))
            /\ cwd' = [cwd EXCEPT ![ClearedName] = Absent]
    /\ UNCHANGED <<task, log, directVars, custodianVars, input_file, ref_dir, cwd0, opened,
                   listing>>

\* line 284: os.listdir(self["ref_dir"]), whose order is arbitrary
FakeListdir ==
    /\ task = "RunQChemFake" /\ pc = "listdir"
    /\ steps' = Append(steps, "_generate_outputs")
    /\ listing' = {n \in Names : Exists(ref_dir[n])}
    /\ pc' = "copy"
    /\ UNCHANGED <<task, error, log, directVars, custodianVars, input_file, cwd, ref_dir,
                   cwd0, opened, removed>>

\* lines 285-287: one iteration of the loop; shutil.copy onto a directory of
\* the same name raises
FakeCopy(file_name) ==
    /\ task = "RunQChemFake" /\ pc = "copy"
    /\ file_name \in listing
    /\ listing' = listing \ {file_name}
    /\ IF ~IsFile(ref_dir[file_name])
          THEN UNCHANGED <<cwd, pc, error>>
       ELSE IF cwd[file_name].kind = "dir"
          THEN pc' = "raised" /\ error' = Raised("IsADirectoryError") /\ cwd' = cwd
       ELSE /\ cwd' = [cwd EXCEPT ![file_name] = ref_dir[file_name]]
            /\ UNCHANGED <<pc, error>>
    /\ UNCHANGED <<task, log, directVars, custodianVars, input_file, ref_dir, cwd0, opened,
                   removed, steps>>

\* line 288: the loop is over
FakeGenerated ==
    /\ task = "RunQChemFake" /\ pc = "copy"
    /\ listing = {}
    /\ log' = Append(log, Info("RunQChemFake: ran fake QChem, generated outputs"))
    /\ pc' = "done"
    /\ UNCHANGED <<task, error, directVars, custodianVars, fakeVars>>

NextFake ==
    \/ FakeVerify
    \/ FakeClear
    \/ FakeListdir
    \/ \E file_name \in Names : FakeCopy(file_name)
    \/ FakeGenerated

SpecFake == InitFake /\ [][NextFake]_vars

\* every task of the module
Init == InitDirect \/ InitCustodian \/ InitFake
Next == NextDirect \/ NextCustodian \/ NextFake
Spec == Init /\ [][Next]_vars

\* ------------------------------------------------------ RunQChemFake claims
RunOrder == <<"_verify_inputs", "_clear_inputs", "_generate_outputs">>
Verified ==
    /\ Len(log) >= 1
    /\ log[1].msg = "RunQChemFake: verified input successfully"

\* both inputs were opened and parsed, so the comparison of lines 254-272 ran
Compared ==
    /\ task = "RunQChemFake" /\ steps # <<>>
    /\ cwd0[UserInputName].kind = "file"
    /\ ref_dir[RefInputName].kind = "file"
UserQin == cwd0[UserInputName].content
RefQin == ref_dir[RefInputName].content

\* C1 (as claimed): after a run that completes, mol.qin does not exist in the
\* working directory, whatever the reference directory holds.
C1_InputAbsentAfterRun ==
    (task = "RunQChemFake" /\ pc = "done") => cwd["mol.qin"].kind = "absent"

\* C1 (amended): after a run that completes, mol.qin exists in the working
\* directory exactly when the reference directory holds a regular file mol.qin,
\* and then it is the reference's file; otherwise it is gone.
C1_InputIsTheReferenceCopyAfterRun ==
    (task = "RunQChemFake" /\ pc = "done") =>
        IF ref_dir["mol.qin"].kind = "file"
           THEN cwd["mol.qin"] = ref_dir["mol.qin"]
           ELSE cwd["mol.qin"].kind = "absent"

C1_Witness ==
    /\ task = "RunQChemFake" /\ pc = "done"
    /\ removed = <<Path("cwd", "mol.qin")>>
    /\ ref_dir["mol.qin"].kind = "file"
    /\ cwd0["mol.qin"] # ref_dir["mol.qin"]
    /\ cwd["mol.qin"] = ref_dir["mol.qin"]

\* C2: the steps run in the order verify, clear, generate, each at most once;
\* clear and generate run only after verify succeeded; when verify raises, the
\* task stops there with that failure, nothing was removed or copied and the
\* working directory is as run_task found it.
C2_VerifyThenClearThenGenerate ==
    task = "RunQChemFake" =>
        /\ Len(steps) <= 3
        /\ \A i \in DOMAIN steps : steps[i] = RunOrder[i]
        /\ Len(steps) >= 2 => Verified
        /\ (pc = "raised" /\ ~Verified) =>
              /\ steps = <<"_verify_inputs">>
              /\ error # NoError
              /\ cwd = cwd0 /\ removed = <<>> /\ listing = {}
        /\ pc = "raised" => ~ENABLED NextFake

C2_Witness ==
    /\ task = "RunQChemFake" /\ pc = "raised"
    /\ steps = <<"_verify_inputs">>
    /\ error.type = "ValueError"
    /\ cwd = cwd0 /\ cwd["mol.qin"].kind = "file"

GroupOf(qin, name) ==
    CASE name = "Rem" -> qin.rem [] name = "Opt" -> qin.opt
      [] name = "PCM" -> qin.pcm [] name = "Solvent" -> qin.solvent
GroupNames == {"Rem", "Opt", "PCM", "Solvent"}
\* the keys of a reference group that the working input lacks or has otherwise
BadKeys(name) ==
    LET r == GroupOf(RefQin, name)
        u == GroupOf(UserQin, name)
    IN {r.items[i][1] : i \in {i \in DOMAIN r.items :
                                  u.isNone \/ DictGet(u.items, r.items[i][1]) # r.items[i][2]}}

\* C5: when species and coordinates agree, a reference key whose working value
\* differs or is missing (the key or its whole group) makes verification fail
\* with a ValueError naming such a key; with no such key verification succeeds.
C5_MismatchedKeyRaisesValueErrorNamingIt ==
    (/\ Compared
     /\ RefQin.species = UserQin.species
     /\ AllClose(RefQin.cart_coords, UserQin.cart_coords)) =>
        IF \E name \in GroupNames : BadKeys(name) # {}
           THEN /\ ~Verified
                /\ error.type = "ValueError"
                /\ error.group \in GroupNames
                /\ error.key \in BadKeys(error.group)
           ELSE Verified

ComponentPairs ==
    {<<RefQin.cart_coords[i][j], UserQin.cart_coords[i][j]>> :
        i \in DOMAIN RefQin.cart_coords, j \in 1 .. 3}
CoordsRejected ==
    /\ ~Verified
    /\ error = [type |-> "AssertionError", group |-> "cart_coords", key |-> ""]

\* C6 (as claimed): with identical species the coordinate check passes when
\* every component differs by at most 1e-4 and fails with an AssertionError
\* when some component differs by more than 1e-4, whatever the magnitude.
C6_ToleranceIsAbsolute ==
    (Compared /\ RefQin.species = UserQin.species) =>
        /\ (\A c \in ComponentPairs : Abs(c[1] - c[2]) <= 10) => ~CoordsRejected
        /\ (\E c \in ComponentPairs : Abs(c[1] - c[2]) > 10) => CoordsRejected

\* C6 (amended): with identical species the coordinate check fails with an
\* AssertionError exactly when some component has
\* |reference - working| > 1e-4 + 1e-7 * |working|.
C6_ToleranceIsAbsolutePlusRelative ==
    (Compared /\ RefQin.species = UserQin.species) =>
        (CoordsRejected <=>
            \E c \in ComponentPairs :
                Abs(c[1] - c[2]) * 10000000 > 10 * 10000000 + Abs(c[2]))

C6_Witness ==
    /\ Compared /\ RefQin.species = UserQin.species
    /\ \E c \in ComponentPairs : Abs(c[1] - c[2]) > 10
    /\ Verified

\* C7: generate leaves the reference directory alone and changes a working
\* entry only by making it the same-named regular file of the reference
\* directory (never a subdirectory or a file inside one); when it completes,
\* every regular file of the reference directory is in the working directory
\* with the reference content.
C7_GenerateCopiesTopLevelRegularFilesOnly ==
    /\ []((task = "RunQChemFake" /\ pc = "done") =>
            \A n \in Names : ref_dir[n].kind = "file" => cwd[n] = ref_dir[n])
    /\ [][(task = "RunQChemFake" /\ pc \in {"listdir", "copy"}) =>
            /\ ref_dir' = ref_dir
            /\ \A n \in Names :
                  cwd'[n] # cwd[n] => (ref_dir[n].kind = "file" /\ cwd'[n] = ref_dir[n])]_vars

C7_Witness ==
    /\ task = "RunQChemFake" /\ pc = "done"
    /\ cwd0["mol.qout"].kind = "file" /\ ref_dir["mol.qout"].kind = "file"
    /\ cwd0["mol.qout"] # ref_dir["mol.qout"] /\ cwd["mol.qout"] = ref_dir["mol.qout"]
    /\ ref_dir["scratch"].kind = "dir"
    /\ cwd0["scratch"].kind = "file" /\ cwd["scratch"] = cwd0["scratch"]
    /\ ref_dir["alt.qin"].kind = "absent"
    /\ cwd0["alt.qin"].kind = "file" /\ cwd["alt.qin"] = cwd0["alt.qin"]

\* C10: the working file verify parses and clear removes is the one input_file
\* names, the same name under which the reference input is read.
C10_WorkingInputIsNamedByInputFile ==
    task = "RunQChemFake" =>
        /\ \A i \in DOMAIN opened : opened[i].name = RefInputName
        /\ \A i \in DOMAIN removed : removed[i].name = RefInputName

====
